---- MODULE Spec2Model ----
(***************************************************************************)
(* Model of src/h.py: the ASCII video player.  play_video is modelled as   *)
(* a state machine whose steps are the statements of the function; the     *)
(* Frame Source (cv2.VideoCapture), the wall clock (time.time, time.sleep) *)
(* and the user (Ctrl+C) are the environment.  interpolate_frames is a     *)
(* pure operator, exercised on its own by SpecBlend.                       *)
(*                                                                         *)
(* Time is counted in ticks; one virtual-frame period (frame_delay) is     *)
(* TicksPerFrame ticks, so target_time = start_time + frame_index *        *)
(* TicksPerFrame.  The original frame rate is kept in tenths of a frame    *)
(* per second so that int(fps * max_duration) truncates.                   *)
(***************************************************************************)
EXTENDS Integers, Sequences, FiniteSets, TLC

\* ---------------------------------------------------------------- bounds
MaxFactor == 3          \* interpolation_factor ranges over 1..MaxFactor
MaxSourceLen == 4       \* the Frame Source yields 0..MaxSourceLen frames
MaxTime == 9            \* clock readings advance on their own up to here
MaxStep == 3            \* ticks the clock may advance between two readings
MaxOversleep == 1       \* ticks time.sleep may return late
MaxDen == 4             \* denominators of the factors tried on the blend
TicksPerFrame == 2      \* ticks in one virtual-frame period
ClockBack == 1          \* ticks the wall clock may be set back

\* ------------------------------------------------------------- constants
NoDuration == 0 - 1     \* max_duration=None
StartupSleep == 2       \* time.sleep(2) before playback
PixelMax == 255         \* uint8 samples

None == [none |-> TRUE]

Max(a, b) == IF a >= b THEN a ELSE b
Min(a, b) == IF a <= b THEN a ELSE b

VARIABLES
    \* inputs of play_video and of the environment
    interpolation_factor, original_fps10, max_duration, source_len, vid, can_open,
    \* the Frame Source
    cap, read_pos,
    \* locals of play_video
    pc, frame_count, fps10, max_frames, frame_index, start_time, ret,
    prev_frame, current_frame, frame, original_frame_index, interp_factor,
    target_time, current_time, sleep_time,
    \* the wall clock
    clock, clock_ok,
    \* what the run has done: printed messages, the terminal, time.sleep calls,
    \* the indices the loop body has run for, the index of the last decode,
    \* the exception play_video is leaving with
    msgs, screen, slept, processed, decoded_at, exc,
    \* the blend exercised on its own
    b_frame1, b_frame2, b_factor, b_out,
    \* the glyph mapping exercised on its own
    a_pixel, a_index, a_glyph

playVars == <<interpolation_factor, original_fps10, max_duration, source_len, vid,
              can_open, cap, read_pos, pc, frame_count, fps10, max_frames,
              frame_index, start_time, ret, prev_frame, current_frame, frame,
              original_frame_index, interp_factor, target_time, current_time,
              sleep_time, clock, clock_ok, msgs, screen, slept, processed,
              decoded_at, exc>>
blendVars == <<b_frame1, b_frame2, b_factor, b_out>>
asciiVars == <<a_pixel, a_index, a_glyph>>
vars == <<playVars, blendVars, asciiVars>>

\* ------------------------------------------------------------ the frames
\* The sample at pixel p of source frame j of video vid.  Video 1 changes
\* from frame to frame, video 2 is a still picture.
SourcePix(v, j) ==
    IF v = 1 THEN <<(j * 90) % (PixelMax + 1), PixelMax - ((j * 35) % (PixelMax + 1))>>
    ELSE <<100, 7>>

\* A frame is its samples (pix) together with where it lies in the source:
\* between source frames lo and hi, num/den of the way.
SourceFrame(v, j) == [lo |-> j, hi |-> j, num |-> 0, den |-> 1, pix |-> SourcePix(v, j)]

\* cv2.addWeighted on one uint8 sample with weights 1 - num/den and num/den:
\* the weighted sum, rounded to nearest (ties to even) and saturated.
AddWeightedBad(p1, p2, num, den) ==
    LET x == p1 * (den - num) + p2 * (num + 1)
        q == x \div den
        r == x % den
        n == IF 2 * r < den THEN q
             ELSE IF 2 * r > den THEN q + 1
             ELSE IF q % 2 = 0 THEN q ELSE q + 1
    IN  Max(0, Min(PixelMax, n))

AddWeighted(p1, p2, num, den) ==
    LET x == p1 * (den - num) + p2 * num
        q == x \div den
        r == x % den
        n == IF 2 * r < den THEN q
             ELSE IF 2 * r > den THEN q + 1
             ELSE IF q % 2 = 0 THEN q ELSE q + 1
    IN  Max(0, Min(PixelMax, n))

\* interpolate_frames(frame1, frame2, factor), factor = num/den
interpolate_frames(frame1, frame2, num, den) ==
    IF frame1 = None \/ frame2 = None
    THEN (IF frame1 # None THEN frame1 ELSE frame2)
    ELSE [lo |-> frame1.lo, hi |-> frame2.hi, num |-> num, den |-> den,
          pix |-> [p \in DOMAIN frame1.pix |->
                      AddWeighted(frame1.pix[p], frame2.pix[p], num, den)]]

\* ------------------------------------------------------------ frame_to_ascii
BucketWidth == 25       \* pixel // 25
\* chars = "    :;;##"
Chars == <<" ", " ", " ", " ", ":", ";", ";", "#", "#">>
\* char_length = len(chars)
CharLength == Len(Chars)

\* min(pixel // 25, char_length - 1)
GlyphIndexNoClamp(pixel) == pixel \div BucketWidth

GlyphIndex(pixel) == Min(pixel \div BucketWidth, CharLength - 1)

\* chars[...]: indexing past the end of the string raises IndexError
Glyph(pixel) ==
    LET k == GlyphIndex(pixel)
    IN  IF k < CharLength THEN Chars[k + 1] ELSE "IndexError"

\* the ASCII art of a frame: one glyph for each sample
frame_to_ascii(f) == [p \in DOMAIN f.pix |-> Glyph(f.pix[p])]

\* cap.read(): the next source frame, or (False, None) at the end of stream
CanRead == read_pos < source_len
ReadFrame == IF CanRead THEN SourceFrame(vid, read_pos) ELSE None

\* ------------------------------------------------------------ the clock
\* What time.time() may return when the clock last showed c: the clock runs
\* on by up to MaxStep ticks (not past MaxTime on its own), or is set back.
Readings(c) ==
    {t \in (c - ClockBack)..(c + MaxStep) : t >= 0 /\ (t <= c \/ t <= MaxTime)}

\* ----------------------------------------------- the values play_video computes
\* max_frames = int(fps * max_duration) if max_duration else frame_count
MaxFramesNoTrunc(f10, dur, count) ==
    IF dur # NoDuration /\ dur # 0 THEN (f10 * dur + 9) \div 10 ELSE count

MaxFrames(f10, dur, count) ==
    IF dur # NoDuration /\ dur # 0 THEN (f10 * dur) \div 10 ELSE count

\* interp_factor = (frame_index % interpolation_factor) / interpolation_factor
InterpFactorOffByOne(i, m) == <<(i % m) + 1, m>>

InterpFactor(i, m) == <<i % m, m>>

\* target_time = start_time + (frame_index / fps)
TargetTime(start, i) == start + i * TicksPerFrame

\* frame_delay = 1 / fps
FrameDelay == TicksPerFrame

\* current_time > target_time + frame_delay
IsLateNever(now, target) == FALSE

IsLate(now, target) == now > target + FrameDelay

\* sleep_time = max(0, target_time - current_time)
SleepTimeNoClamp(target, now) == target - now

SleepTime(target, now) == Max(0, target - now)

\* if sleep_time > 0
ShouldSleepNever(st) == FALSE

ShouldSleep(st) == st > 0

\* display_frame = current_frame if frame_index % interpolation_factor == 0 else frame
DisplayFrameBlended(i, m, prev, cur, blended) ==
    IF i % m = 0 THEN interpolate_frames(prev, cur, 1, 2) ELSE blended

DisplayFramePrev(i, m, prev, cur, blended) == IF i % m = 0 THEN prev ELSE blended

DisplayFrame(i, m, prev, cur, blended) == IF i % m = 0 THEN cur ELSE blended

\* ------------------------------------------------------------- the inputs
OriginalFps10 == {0, 5, 15}
MaxDurations == {NoDuration, 0, 1, 2}
Videos == {1, 2}
\* fps=10, m=2, maxDuration=1 over a source long enough for the cap to end it
ExampleInput == [m |-> 2, f10 |-> 100, dur |-> 1, len |-> 11, v |-> 1, open |-> TRUE]
Inputs ==
    [m : 1..MaxFactor, f10 : OriginalFps10, dur : MaxDurations,
     len : 0..MaxSourceLen, v : Videos, open : {TRUE}]
    \cup {[m |-> 1, f10 |-> 5, dur |-> 1, len |-> 0, v |-> 1, open |-> FALSE]}
    \cup {ExampleInput}

Unset == [unset |-> TRUE]

InitPlay(in) ==
    /\ interpolation_factor = in.m
    /\ original_fps10 = in.f10
    /\ max_duration = in.dur
    /\ source_len = in.len
    /\ vid = in.v
    /\ can_open = in.open
    /\ cap = "closed"
    /\ read_pos = 0
    /\ pc = "open"
    /\ frame_count = 0
    /\ fps10 = 0
    /\ max_frames = 0
    /\ frame_index = 0
    /\ start_time = 0
    /\ ret = FALSE
    /\ prev_frame = None
    /\ current_frame = None
    /\ frame = None
    /\ original_frame_index = 0
    /\ interp_factor = <<0, 1>>
    /\ target_time = 0
    /\ current_time = 0
    /\ sleep_time = 0
    /\ clock = 0
    /\ clock_ok = TRUE
    /\ msgs = << >>
    /\ screen = None
    /\ slept = << >>
    /\ processed = << >>
    /\ decoded_at = 0 - 1
    /\ exc = "none"

InitBlendIdle ==
    /\ b_frame1 = None
    /\ b_frame2 = None
    /\ b_factor = <<0, 1>>
    /\ b_out = Unset

InitAsciiIdle ==
    /\ a_pixel = 0
    /\ a_index = 0 - 1
    /\ a_glyph = ""

Init == (\E in \in Inputs : InitPlay(in)) /\ InitBlendIdle /\ InitAsciiIdle

\* ------------------------------------------------------------ play_video
\* cap = cv2.VideoCapture(video_path); if not cap.isOpened(): print; return
Open ==
    /\ pc = "open"
    /\ IF can_open
       THEN /\ cap' = "open"
            /\ pc' = "props"
            /\ msgs' = msgs
       ELSE /\ cap' = cap
            /\ pc' = "exit"
            /\ msgs' = Append(msgs, "open_error")
    /\ UNCHANGED <<interpolation_factor, original_fps10, max_duration, source_len,
                   vid, can_open, read_pos, frame_count, fps10, max_frames,
                   frame_index, start_time, ret, prev_frame, current_frame, frame,
                   original_frame_index, interp_factor, target_time, current_time,
                   sleep_time, clock, clock_ok, screen, slept, processed,
                   decoded_at, exc, blendVars, asciiVars>>

\* the video properties: frame_count / original_fps and 1 / fps divide by the
\* frame rate, which raises ZeroDivisionError outside the try when it is 0
Props ==
    /\ pc = "props"
    /\ IF original_fps10 = 0
       THEN /\ exc' = "ZeroDivisionError"
            /\ pc' = "exit"
            /\ UNCHANGED <<frame_count, fps10, max_frames>>
       ELSE /\ frame_count' = source_len
            /\ fps10' = original_fps10 * interpolation_factor
            /\ max_frames' = MaxFrames(fps10', max_duration, frame_count')
            /\ pc' = "header"
            /\ exc' = exc
    /\ UNCHANGED <<interpolation_factor, original_fps10, max_duration, source_len,
                   vid, can_open, cap, read_pos, frame_index, start_time, ret,
                   prev_frame, current_frame, frame, original_frame_index,
                   interp_factor, target_time, current_time, sleep_time, clock,
                   clock_ok, msgs, screen, slept, processed, decoded_at, blendVars, asciiVars>>

\* the banner and time.sleep(2); min(duration, max_duration) raises TypeError
\* outside the try when max_duration is None
Header ==
    /\ pc = "header"
    /\ IF max_duration = NoDuration
       THEN /\ exc' = "TypeError"
            /\ pc' = "exit"
            /\ UNCHANGED <<msgs, slept>>
       ELSE /\ msgs' = Append(msgs, "banner")
            /\ slept' = <<StartupSleep>>
            /\ pc' = "start"
            /\ exc' = exc
    /\ UNCHANGED <<interpolation_factor, original_fps10, max_duration, source_len,
                   vid, can_open, cap, read_pos, frame_count, fps10, max_frames,
                   frame_index, start_time, ret, prev_frame, current_frame, frame,
                   original_frame_index, interp_factor, target_time, current_time,
                   sleep_time, clock, clock_ok, screen, processed, decoded_at,
                   blendVars, asciiVars>>

\* try: frame_index = 0; start_time = time.time()
Start ==
    /\ pc = "start"
    /\ \E t \in Readings(clock) :
         /\ start_time' = t
         /\ clock' = t
         /\ clock_ok' = (clock_ok /\ t >= clock)
    /\ frame_index' = 0
    /\ pc' = "first_read"
    /\ UNCHANGED <<interpolation_factor, original_fps10, max_duration, source_len,
                   vid, can_open, cap, read_pos, frame_count, fps10, max_frames,
                   ret, prev_frame, current_frame, frame, original_frame_index,
                   interp_factor, target_time, current_time, sleep_time, msgs,
                   screen, slept, processed, decoded_at, exc, blendVars, asciiVars>>

\* FirstRead without the check of ret: playback goes on after a failed read
FirstReadNoCheck ==
    /\ pc = "first_read"
    /\ ret' = CanRead
    /\ prev_frame' = ReadFrame
    /\ read_pos' = (IF CanRead THEN read_pos + 1 ELSE read_pos)
    /\ current_frame' = None
    /\ original_frame_index' = 0
    /\ pc' = "loop"
    /\ UNCHANGED <<interpolation_factor, original_fps10, max_duration, source_len,
                   vid, can_open, cap, frame_count, fps10, max_frames, frame_index,
                   start_time, frame, interp_factor, target_time, current_time,
                   sleep_time, clock, clock_ok, msgs, screen, slept, processed,
                   decoded_at, exc, blendVars, asciiVars>>

\* ret, prev_frame = cap.read(); if not ret: print; return
\* current_frame = None; original_frame_index = 0
FirstRead ==
    /\ pc = "first_read"
    /\ ret' = CanRead
    /\ prev_frame' = ReadFrame
    /\ IF CanRead
       THEN /\ read_pos' = read_pos + 1
            /\ current_frame' = None
            /\ original_frame_index' = 0
            /\ pc' = "loop"
            /\ msgs' = msgs
       ELSE /\ msgs' = Append(msgs, "first_frame_error")
            /\ pc' = "finally"
            /\ UNCHANGED <<read_pos, current_frame, original_frame_index>>
    /\ UNCHANGED <<interpolation_factor, original_fps10, max_duration, source_len,
                   vid, can_open, cap, frame_count, fps10, max_frames, frame_index,
                   start_time, frame, interp_factor, target_time, current_time,
                   sleep_time, clock, clock_ok, screen, slept, processed,
                   decoded_at, exc, blendVars, asciiVars>>

\* while frame_index < max_frames
LoopTest ==
    /\ pc = "loop"
    /\ IF frame_index < max_frames
       THEN /\ pc' = "body"
            /\ processed' = Append(processed, frame_index)
       ELSE /\ pc' = "summary"
            /\ processed' = processed
    /\ UNCHANGED <<interpolation_factor, original_fps10, max_duration, source_len,
                   vid, can_open, cap, read_pos, frame_count, fps10, max_frames,
                   frame_index, start_time, ret, prev_frame, current_frame, frame,
                   original_frame_index, interp_factor, target_time, current_time,
                   sleep_time, clock, clock_ok, msgs, screen, slept, decoded_at,
                   exc, blendVars, asciiVars>>

\* Decode with the end of stream reported as an error instead of a break
DecodeEndIsError ==
    /\ pc = "body"
    /\ frame_index % interpolation_factor = 0
    /\ prev_frame' = (IF current_frame # None THEN current_frame ELSE prev_frame)
    /\ ret' = CanRead
    /\ current_frame' = ReadFrame
    /\ IF CanRead
       THEN /\ read_pos' = read_pos + 1
            /\ original_frame_index' = original_frame_index + 1
            /\ decoded_at' = frame_index
            /\ pc' = "check"
            /\ msgs' = msgs
       ELSE /\ pc' = "finally"
            /\ msgs' = Append(msgs, "first_frame_error")
            /\ UNCHANGED <<read_pos, original_frame_index, decoded_at>>
    /\ UNCHANGED <<interpolation_factor, original_fps10, max_duration, source_len,
                   vid, can_open, cap, frame_count, fps10, max_frames, frame_index,
                   start_time, frame, interp_factor, target_time, current_time,
                   sleep_time, clock, clock_ok, screen, slept, processed,
                   exc, blendVars, asciiVars>>

\* Decode without the promotion of current_frame to prev_frame
DecodeNoPromote ==
    /\ pc = "body"
    /\ frame_index % interpolation_factor = 0
    /\ prev_frame' = prev_frame
    /\ ret' = CanRead
    /\ current_frame' = ReadFrame
    /\ IF CanRead
       THEN /\ read_pos' = read_pos + 1
            /\ original_frame_index' = original_frame_index + 1
            /\ decoded_at' = frame_index
            /\ pc' = "check"
       ELSE /\ pc' = "summary"
            /\ UNCHANGED <<read_pos, original_frame_index, decoded_at>>
    /\ UNCHANGED <<interpolation_factor, original_fps10, max_duration, source_len,
                   vid, can_open, cap, frame_count, fps10, max_frames, frame_index,
                   start_time, frame, interp_factor, target_time, current_time,
                   sleep_time, clock, clock_ok, msgs, screen, slept, processed,
                   exc, blendVars, asciiVars>>

\* Decode that reads no frame at an index that is already behind schedule
DecodeSkipsWhenLate ==
    /\ pc = "body"
    /\ frame_index % interpolation_factor = 0
    /\ IF IsLate(clock, TargetTime(start_time, frame_index))
       THEN /\ pc' = "check"
            /\ UNCHANGED <<prev_frame, ret, current_frame, read_pos,
                           original_frame_index, decoded_at>>
       ELSE /\ prev_frame' = (IF current_frame # None THEN current_frame ELSE prev_frame)
            /\ ret' = CanRead
            /\ current_frame' = ReadFrame
            /\ IF CanRead
               THEN /\ read_pos' = read_pos + 1
                    /\ original_frame_index' = original_frame_index + 1
                    /\ decoded_at' = frame_index
                    /\ pc' = "check"
               ELSE /\ pc' = "summary"
                    /\ UNCHANGED <<read_pos, original_frame_index, decoded_at>>
    /\ UNCHANGED <<interpolation_factor, original_fps10, max_duration, source_len,
                   vid, can_open, cap, frame_count, fps10, max_frames, frame_index,
                   start_time, frame, interp_factor, target_time, current_time,
                   sleep_time, clock, clock_ok, msgs, screen, slept, processed,
                   exc, blendVars, asciiVars>>

\* Decode without the break at the end of stream
DecodeNoBreak ==
    /\ pc = "body"
    /\ frame_index % interpolation_factor = 0
    /\ prev_frame' = (IF current_frame # None THEN current_frame ELSE prev_frame)
    /\ ret' = CanRead
    /\ current_frame' = ReadFrame
    /\ pc' = "check"
    /\ IF CanRead
       THEN /\ read_pos' = read_pos + 1
            /\ original_frame_index' = original_frame_index + 1
            /\ decoded_at' = frame_index
       ELSE UNCHANGED <<read_pos, original_frame_index, decoded_at>>
    /\ UNCHANGED <<interpolation_factor, original_fps10, max_duration, source_len,
                   vid, can_open, cap, frame_count, fps10, max_frames, frame_index,
                   start_time, frame, interp_factor, target_time, current_time,
                   sleep_time, clock, clock_ok, msgs, screen, slept, processed,
                   exc, blendVars, asciiVars>>

\* if frame_index % interpolation_factor == 0: promote current_frame, read a
\* new frame, break at the end of stream
Decode ==
    /\ pc = "body"
    /\ frame_index % interpolation_factor = 0
    /\ prev_frame' = (IF current_frame # None THEN current_frame ELSE prev_frame)
    /\ ret' = CanRead
    /\ current_frame' = ReadFrame
    /\ IF CanRead
       THEN /\ read_pos' = read_pos + 1
            /\ original_frame_index' = original_frame_index + 1
            /\ decoded_at' = frame_index
            /\ pc' = "check"
       ELSE /\ pc' = "summary"
            /\ UNCHANGED <<read_pos, original_frame_index, decoded_at>>
    /\ UNCHANGED <<interpolation_factor, original_fps10, max_duration, source_len,
                   vid, can_open, cap, frame_count, fps10, max_frames, frame_index,
                   start_time, frame, interp_factor, target_time, current_time,
                   sleep_time, clock, clock_ok, msgs, screen, slept, processed,
                   exc, blendVars, asciiVars>>

\* else: interp_factor = ...; frame = interpolate_frames(prev_frame, current_frame, interp_factor)
Blend ==
    /\ pc = "body"
    /\ frame_index % interpolation_factor # 0
    /\ interp_factor' = InterpFactor(frame_index, interpolation_factor)
    /\ frame' = interpolate_frames(prev_frame, current_frame,
                                   interp_factor'[1], interp_factor'[2])
    /\ pc' = "check"
    /\ UNCHANGED <<interpolation_factor, original_fps10, max_duration, source_len,
                   vid, can_open, cap, read_pos, frame_count, fps10, max_frames,
                   frame_index, start_time, ret, prev_frame, current_frame,
                   original_frame_index, target_time, current_time, sleep_time,
                   clock, clock_ok, msgs, screen, slept, processed, decoded_at,
                   exc, blendVars, asciiVars>>

\* target_time, current_time = time.time(); skip the frame when behind
\* schedule by more than one frame: frame_index += 1; continue
LateCheck ==
    /\ pc = "check"
    /\ target_time' = TargetTime(start_time, frame_index)
    /\ \E t \in Readings(clock) :
         /\ current_time' = t
         /\ clock' = t
         /\ clock_ok' = (clock_ok /\ t >= clock)
    /\ IF IsLate(current_time', target_time')
       THEN /\ frame_index' = frame_index + 1
            /\ pc' = "loop"
       ELSE /\ frame_index' = frame_index
            /\ pc' = "render"
    /\ UNCHANGED <<interpolation_factor, original_fps10, max_duration, source_len,
                   vid, can_open, cap, read_pos, frame_count, fps10, max_frames,
                   start_time, ret, prev_frame, current_frame, frame,
                   original_frame_index, interp_factor, sleep_time, msgs, screen,
                   slept, processed, decoded_at, exc, blendVars, asciiVars>>

\* clear the screen, pick display_frame, frame_to_ascii, write it out;
\* frame_to_ascii raises on a frame that is None
Render ==
    /\ pc = "render"
    /\ LET display_frame == DisplayFrame(frame_index, interpolation_factor,
                                         prev_frame, current_frame, frame)
       IN  IF display_frame = None
           THEN /\ exc' = "cv2.error"
                /\ pc' = "finally"
                /\ screen' = screen
           ELSE /\ screen' = [idx |-> frame_index, shown |-> display_frame,
                            text |-> frame_to_ascii(display_frame)]
                /\ pc' = "pace"
                /\ exc' = exc
    /\ UNCHANGED <<interpolation_factor, original_fps10, max_duration, source_len,
                   vid, can_open, cap, read_pos, frame_count, fps10, max_frames,
                   frame_index, start_time, ret, prev_frame, current_frame, frame,
                   original_frame_index, interp_factor, target_time, current_time,
                   sleep_time, clock, clock_ok, msgs, slept, processed, decoded_at,
                   blendVars, asciiVars>>

\* current_time = time.time(); sleep_time = max(0, target_time - current_time)
\* if sleep_time > 0: time.sleep(sleep_time) is entered; else frame_index += 1
Pace ==
    /\ pc = "pace"
    /\ \E t \in Readings(clock) :
         /\ current_time' = t
         /\ clock' = t
         /\ clock_ok' = (clock_ok /\ t >= clock)
    /\ sleep_time' = SleepTime(target_time, current_time')
    /\ IF ShouldSleep(sleep_time')
       THEN /\ slept' = <<sleep_time'>>
            /\ pc' = "sleeping"
            /\ frame_index' = frame_index
       ELSE /\ slept' = slept
            /\ pc' = "loop"
            /\ frame_index' = frame_index + 1
    /\ UNCHANGED <<interpolation_factor, original_fps10, max_duration, source_len,
                   vid, can_open, cap, read_pos, frame_count, fps10, max_frames,
                   start_time, ret, prev_frame, current_frame, frame,
                   original_frame_index, interp_factor, target_time, msgs, screen,
                   processed, decoded_at, exc, blendVars, asciiVars>>

\* time.sleep(sleep_time) returns; frame_index += 1
Wake ==
    /\ pc = "sleeping"
    /\ \E over \in 0..MaxOversleep : clock' = clock + sleep_time + over
    /\ frame_index' = frame_index + 1
    /\ pc' = "loop"
    /\ UNCHANGED <<interpolation_factor, original_fps10, max_duration, source_len,
                   vid, can_open, cap, read_pos, frame_count, fps10, max_frames,
                   start_time, ret, prev_frame, current_frame, frame,
                   original_frame_index, interp_factor, target_time, current_time,
                   sleep_time, clock_ok, msgs, screen, slept, processed,
                   decoded_at, exc, blendVars, asciiVars>>

\* after the loop: elapsed_time, fps_achieved, the completion summary
Summary ==
    /\ pc = "summary"
    /\ \E t \in Readings(clock) :
         /\ clock' = t
         /\ clock_ok' = (clock_ok /\ t >= clock)
    /\ msgs' = Append(msgs, "summary")
    /\ pc' = "finally"
    /\ UNCHANGED <<interpolation_factor, original_fps10, max_duration, source_len,
                   vid, can_open, cap, read_pos, frame_count, fps10, max_frames,
                   frame_index, start_time, ret, prev_frame, current_frame, frame,
                   original_frame_index, interp_factor, target_time, current_time,
                   sleep_time, screen, slept, processed, decoded_at, exc,
                   blendVars, asciiVars>>

\* the statements inside try: ... except KeyboardInterrupt
TryPcs == {"start", "first_read", "loop", "body", "check", "render", "pace",
           "sleeping", "summary"}
\* the statements of play_video after the source is opened and before the try
PreTryPcs == {"props", "header"}

\* Ctrl+C inside the try without the except clause: the finally runs and
\* KeyboardInterrupt leaves play_video
InterruptInTryPropagates ==
    /\ pc \in TryPcs
    /\ exc' = "KeyboardInterrupt"
    /\ pc' = "finally"
    /\ UNCHANGED <<interpolation_factor, original_fps10, max_duration, source_len,
                   vid, can_open, cap, read_pos, frame_count, fps10, max_frames,
                   frame_index, start_time, ret, prev_frame, current_frame, frame,
                   original_frame_index, interp_factor, target_time, current_time,
                   sleep_time, clock, clock_ok, msgs, screen, slept, processed,
                   decoded_at, blendVars, asciiVars>>

\* Ctrl+C inside the try: except KeyboardInterrupt: print; then the finally
InterruptInTry ==
    /\ pc \in TryPcs
    /\ msgs' = Append(msgs, "interrupted")
    /\ pc' = "finally"
    /\ UNCHANGED <<interpolation_factor, original_fps10, max_duration, source_len,
                   vid, can_open, cap, read_pos, frame_count, fps10, max_frames,
                   frame_index, start_time, ret, prev_frame, current_frame, frame,
                   original_frame_index, interp_factor, target_time, current_time,
                   sleep_time, clock, clock_ok, screen, slept, processed,
                   decoded_at, exc, blendVars, asciiVars>>

\* Ctrl+C before the try (lines 83-101): KeyboardInterrupt leaves play_video
InterruptBeforeTry ==
    /\ pc \in PreTryPcs
    /\ exc' = "KeyboardInterrupt"
    /\ pc' = "exit"
    /\ UNCHANGED <<interpolation_factor, original_fps10, max_duration, source_len,
                   vid, can_open, cap, read_pos, frame_count, fps10, max_frames,
                   frame_index, start_time, ret, prev_frame, current_frame, frame,
                   original_frame_index, interp_factor, target_time, current_time,
                   sleep_time, clock, clock_ok, msgs, screen, slept, processed,
                   decoded_at, blendVars, asciiVars>>

\* finally: cap.release()
Finally ==
    /\ pc = "finally"
    /\ cap' = "released"
    /\ pc' = "exit"
    /\ UNCHANGED <<interpolation_factor, original_fps10, max_duration, source_len,
                   vid, can_open, read_pos, frame_count, fps10, max_frames,
                   frame_index, start_time, ret, prev_frame, current_frame, frame,
                   original_frame_index, interp_factor, target_time, current_time,
                   sleep_time, clock, clock_ok, msgs, screen, slept, processed,
                   decoded_at, exc, blendVars, asciiVars>>

Next ==
    \/ Open
    \/ Props
    \/ Header
    \/ Start
    \/ FirstRead
    \/ LoopTest
    \/ Decode
    \/ Blend
    \/ LateCheck
    \/ Render
    \/ Pace
    \/ Wake
    \/ Summary
    \/ InterruptInTry
    \/ InterruptBeforeTry
    \/ Finally

Spec == Init /\ [][Next]_vars

\* ------------------------------------------- interpolate_frames on its own
BlendPixels == {0, 1, 100, 127, 255}
BlendFrames ==
    {[lo |-> 0, hi |-> 0, num |-> 0, den |-> 1, pix |-> <<a, b>>] :
        a \in BlendPixels, b \in {7, 254}} \cup {None}
\* the factors num/den in [0, 1]
BlendFactors == {<<n, d>> \in (0..MaxDen) \X (1..MaxDen) : n <= d}

InitBlend ==
    /\ InitPlay(ExampleInput)
    /\ b_frame1 \in BlendFrames
    /\ b_frame2 \in BlendFrames
    /\ b_factor \in BlendFactors
    /\ b_out = Unset
    /\ InitAsciiIdle

CallBlend ==
    /\ b_out = Unset
    /\ b_out' = interpolate_frames(b_frame1, b_frame2, b_factor[1], b_factor[2])
    /\ UNCHANGED <<playVars, b_frame1, b_frame2, b_factor, asciiVars>>

SpecBlend == InitBlend /\ [][CallBlend]_vars

\* ----------------------------------- frame_to_ascii's glyph mapping on its own
InitAscii ==
    /\ InitPlay(ExampleInput)
    /\ InitBlendIdle
    /\ a_pixel \in 0..PixelMax
    /\ a_index = 0 - 1
    /\ a_glyph = ""

CallAscii ==
    /\ a_index = 0 - 1
    /\ a_index' = GlyphIndex(a_pixel)
    /\ a_glyph' = Glyph(a_pixel)
    /\ UNCHANGED <<playVars, blendVars, a_pixel>>

SpecAscii == InitAscii /\ [][CallAscii]_vars

\* ================================================================ claims
\* Where a frame lies in the source, as the fraction PosNum(f) / f.den
PosNum(f) == f.lo * f.den + (f.hi - f.lo) * f.num
PosLeq(f, g) == PosNum(f) * g.den <= PosNum(g) * f.den

\* the last cap.read() was a failed decode after the first frame
EosInLoop == ~ret /\ read_pos >= 1
Interrupted == \E k \in DOMAIN msgs : msgs[k] = "interrupted"

\* C1: frames are never presented out of order: each rendered frame lies in
\* the source at or after the frame rendered before it.
C1_FramesInOrder ==
    [][(screen # None /\ screen' # screen) => PosLeq(screen.shown, screen'.shown)]_vars

\* C2: once opened, the Frame Source is released on every exit path of
\* play_video.
C2_ReleasedOnEveryExit == pc = "exit" => cap # "open"

\* C3: over a source of one frame, when the second decode reports the end of
\* stream play_video ends without error having rendered that frame.
C3_SingleFrameShown ==
    (source_len = 1 /\ pc = "exit" /\ EosInLoop /\ ~Interrupted)
        => /\ exc = "none"
           /\ screen # None
           /\ screen.shown.pix = SourcePix(vid, 0)

\* C4: a frame whose lateness check reads a time past target + frameDelay is
\* not rendered and not slept for, and the index advances by exactly 1; every
\* render shows the frame of the current index, later than the one before, so
\* no iteration renders more than one frame.
C4_DropPolicy ==
    [][/\ (/\ pc = "check"
           /\ pc' \in {"loop", "render"}
           /\ current_time' > start_time + frame_index * TicksPerFrame + TicksPerFrame)
          => /\ pc' = "loop"
             /\ frame_index' = frame_index + 1
             /\ screen' = screen
             /\ slept' = slept
       /\ screen' # screen
          => /\ pc = "render"
             /\ pc' = "pace"
             /\ screen'.idx = frame_index
             /\ (screen # None => screen.idx < screen'.idx)
       /\ frame_index' >= frame_index]_vars

C4_Witness ==
    /\ pc = "loop"
    /\ frame_index >= 2
    /\ screen # None
    /\ screen.idx < frame_index - 1
    /\ target_time = TargetTime(start_time, frame_index - 1)
    /\ current_time > target_time + TicksPerFrame

\* C5: the pacing sleep is max(0, target - now), never negative, and
\* time.sleep is only called with a strictly positive value.
C5_NoNegativeSleep ==
    /\ [](sleep_time >= 0 /\ \A k \in DOMAIN slept : slept[k] > 0)
    /\ [][(pc = "pace" /\ pc' \in {"sleeping", "loop"})
            => /\ sleep_time' = Max(0, target_time - current_time')
               /\ pc' = "sleeping" => (sleep_time' > 0 /\ slept' = <<sleep_time'>>)
               /\ pc' = "loop" => (sleep_time' = 0 /\ slept' = slept)]_vars

C5_Witness ==
    /\ pc = "loop"
    /\ screen # None
    /\ screen.idx = frame_index - 1
    /\ target_time = TargetTime(start_time, screen.idx)
    /\ current_time > target_time
    /\ sleep_time = 0

\* C6: when the duration cap ends the loop, the loop body has run for exactly
\* the indices 0 .. int(m * originalFps * maxDuration) - 1, once each, in order.
C6_CapSchedule ==
    (pc = "summary" /\ ret /\ max_duration # NoDuration /\ max_duration # 0)
        => LET n == (interpolation_factor * original_fps10 * max_duration) \div 10
           IN  /\ frame_index = n
               /\ processed = [k \in 1..n |-> k - 1]

C6_Witness ==
    /\ pc = "summary"
    /\ ret
    /\ interpolation_factor = 2
    /\ original_fps10 = 100
    /\ max_duration = 1
    /\ processed = [k \in 1..20 |-> k - 1]

\* C7: a rendered frame at an index that is a multiple of m is the source
\* frame decoded in that same iteration, unmodified.
C7_GenuineUnmodified ==
    (pc = "pace" /\ frame_index % interpolation_factor = 0)
        => /\ screen.idx = frame_index
           /\ decoded_at = frame_index
           /\ screen.shown = SourceFrame(vid, read_pos - 1)

C7_Witness ==
    /\ pc = "pace"
    /\ frame_index % interpolation_factor = 0
    /\ frame_index > 0
    /\ interpolation_factor > 1

\* C8: the interpolation factor (i mod m) / m lies in [0, 1), for the index
\* at hand and for the factor last computed.
C8_FactorInRange ==
    LET f == InterpFactor(frame_index, interpolation_factor)
    IN  /\ 0 <= f[1] /\ f[1] < f[2]
        /\ 0 <= interp_factor[1] /\ interp_factor[1] < interp_factor[2]

C8_Witness ==
    /\ pc = "check"
    /\ frame_index % interpolation_factor = 2
    /\ interp_factor = <<2, 3>>

\* C9: interpolate_frames(F, F, f) equals F pixel for pixel, for every f in
\* [0, 1].
C9_BlendIdempotent ==
    (b_out # Unset /\ b_frame1 = b_frame2)
        => IF b_frame1 = None THEN b_out = None
           ELSE b_out # None /\ b_out.pix = b_frame1.pix

C9_Witness ==
    /\ b_out # Unset
    /\ b_frame1 = b_frame2
    /\ b_frame1 # None
    /\ b_frame1.pix = <<127, 254>>
    /\ b_factor = <<1, 3>>

\* C10: a failed decode after the first frame leaves the loop, nothing is
\* decoded or rendered after it, and unless the user interrupts, play_video
\* ends with the completion summary and no error or interrupt message.
C10_EndOfStreamIsNormal ==
    /\ [][/\ (pc = "body" /\ frame_index % interpolation_factor = 0 /\ ~CanRead)
             => pc' \in {"summary", "finally"}
          /\ EosInLoop => (screen' = screen /\ read_pos' = read_pos /\ pc' # "body")]_vars
    /\ []((pc = "exit" /\ EosInLoop /\ ~Interrupted)
            => /\ exc = "none"
               /\ msgs = <<"banner", "summary">>)

C10_Witness ==
    /\ pc = "exit"
    /\ EosInLoop
    /\ screen # None
    /\ msgs = <<"banner", "summary">>

\* the statements of the playback loop
LoopPcs == {"loop", "body", "check", "render", "pace", "sleeping"}
Printed(m) == \E k \in DOMAIN msgs : msgs[k] = m

\* C11: when the first decode fails, play_video prints the error and returns
\* without entering the loop: nothing more is decoded, blended, rendered or
\* slept for, and no completion summary is printed.
C11_FirstDecodeFailure ==
    /\ [][(pc = "first_read" /\ ~CanRead /\ pc' # pc /\ ~Interrupted')
            => (pc' = "finally" /\ msgs' = Append(msgs, "first_frame_error"))]_vars
    /\ [](Printed("first_frame_error")
            => /\ pc \in {"finally", "exit"}
               /\ ~ret
               /\ read_pos = 0
               /\ processed = << >>
               /\ frame = None
               /\ screen = None
               /\ slept = <<StartupSleep>>
               /\ ~Printed("summary")
               /\ exc = "none")

C11_Witness ==
    /\ pc = "exit"
    /\ source_len = 0
    /\ cap = "released"
    /\ msgs = <<"banner", "first_frame_error">>

\* C12: a cancellation during playback stops the loop: afterwards nothing is
\* decoded or rendered and the index does not advance, the interrupt message
\* is printed and the summary is not, the source is released and play_video
\* returns without an exception.
C12_CancellationStopsPlayback ==
    /\ [][/\ (pc \in TryPcs /\ pc' = "finally" /\ exc' # "none")
             => pc = "render"
          /\ Interrupted
             => /\ read_pos' = read_pos
                /\ screen' = screen
                /\ frame_index' = frame_index
                /\ msgs' = msgs
                /\ slept' = slept]_vars
    /\ [](Interrupted
            => /\ pc \in {"finally", "exit"}
               /\ exc = "none"
               /\ ~Printed("summary")
               /\ pc = "exit" => cap = "released")

C12_Witness ==
    /\ pc = "exit"
    /\ Interrupted
    /\ cap = "released"
    /\ screen # None
    /\ screen.idx = frame_index
    /\ sleep_time > 0
    /\ sleep_time = target_time - current_time
    /\ slept = <<sleep_time>>

\* C13: frame_to_ascii maps every pixel p in 0..255 to the glyph at bucket
\* floor(p / 25) of a ramp of 10 density levels, every index within the ramp.
C13_TenLevelRamp ==
    a_index # 0 - 1
        => /\ CharLength = 10
           /\ a_index = a_pixel \div 25
           /\ 0 <= a_index /\ a_index < CharLength

\* C13 as amended: frame_to_ascii maps every pixel p in 0..255 to the glyph
\* at index min(floor(p / 25), 8) of a ramp of 9 characters, every index
\* within the ramp.
C13_NineCharRamp ==
    a_index # 0 - 1
        => /\ CharLength = 9
           /\ a_index = (IF a_pixel \div 25 < 8 THEN a_pixel \div 25 ELSE 8)
           /\ 0 <= a_index /\ a_index < CharLength
           /\ a_glyph = Chars[a_index + 1]

C13_Witness ==
    /\ a_pixel = 255
    /\ a_index = 8
    /\ a_glyph = "#"

\* the source is exhausted: a decode has failed, or every frame has been read
Exhausted == EosInLoop \/ read_pos >= source_len
CapSet == max_duration # NoDuration /\ max_duration # 0

\* C14: when the loop is left without cancellation, exactly one holds: the
\* index has reached m * originalFps * maxDuration under a duration cap, or
\* the Frame Source is exhausted; with no cap the loop runs until the source
\* is exhausted.
C14_LoopExit ==
    pc = "summary"
        => LET capReached ==
                   /\ CapSet
                   /\ ret
                   /\ frame_index =
                        (interpolation_factor * original_fps10 * max_duration) \div 10
           IN  /\ capReached \/ Exhausted
               /\ ~(capReached /\ EosInLoop)
               /\ ~CapSet => Exhausted

\* C15: a rendered frame at index i with k = i mod m # 0 is the blend
\* previous * (1 - k/m) + current * (k/m), previous being the source frame
\* shown unmodified at index i - k and current the one to be shown unmodified
\* at index i - k + m.
C15_BlendEndpoints ==
    (pc = "pace" /\ frame_index % interpolation_factor # 0)
        => LET k == frame_index % interpolation_factor
               shownBefore == DisplayFrame(frame_index - k, interpolation_factor,
                                           prev_frame, current_frame, frame)
           IN  /\ decoded_at = frame_index - k
               /\ shownBefore = SourceFrame(vid, read_pos - 1)
               /\ screen.idx = frame_index
               /\ screen.shown.lo = shownBefore.lo
               /\ screen.shown.hi = shownBefore.lo + 1
               /\ screen.shown.num = k
               /\ screen.shown.den = interpolation_factor
               /\ screen.shown.pix =
                    [p \in DOMAIN shownBefore.pix |->
                        AddWeighted(SourcePix(vid, screen.shown.lo)[p],
                                    SourcePix(vid, screen.shown.hi)[p],
                                    k, interpolation_factor)]

\* C16: in the loop, whenever both are set, prev_frame and current_frame are
\* the two most recently decoded source frames, in source order.
C16_PrevBeforeCurrent ==
    (pc \in LoopPcs /\ prev_frame # None /\ current_frame # None)
        => /\ read_pos >= 2
           /\ current_frame = SourceFrame(vid, read_pos - 1)
           /\ prev_frame = SourceFrame(vid, read_pos - 2)
           /\ PosLeq(prev_frame, current_frame)

C16_Witness ==
    /\ pc = "check"
    /\ read_pos >= 3
    /\ prev_frame # None
    /\ current_frame # None

\* C17: at the head of every iteration the number of successful in-loop
\* decodes is ceil(i / m), whether or not indices were dropped, and a run
\* that ends at the end of the stream of N >= 1 frames ends with
\* i = m * (N - 1).
C17_DecodeLockstep ==
    /\ pc = "loop"
         => /\ original_frame_index =
                 (frame_index + interpolation_factor - 1) \div interpolation_factor
            /\ read_pos = original_frame_index + 1
    /\ (pc = "summary" /\ EosInLoop)
         => frame_index = interpolation_factor * (source_len - 1)

C17_Witness ==
    /\ pc = "loop"
    /\ interpolation_factor >= 2
    /\ frame_index >= interpolation_factor + 1
    /\ (frame_index - 1) % interpolation_factor = 0
    /\ decoded_at = frame_index - 1
    /\ screen # None
    /\ screen.idx < frame_index - 1

\* C18: with a clock that never goes back and a sleep that never returns
\* early, every rendered index i passed its lateness check at a time t with
\* target(i) - frameDelay <= t <= target(i) + frameDelay.
C18_CheckWindow ==
    (pc = "render" /\ clock_ok)
        => LET target == start_time + frame_index * TicksPerFrame
           IN  /\ target - TicksPerFrame <= current_time
               /\ current_time <= target + TicksPerFrame

C18_Witness ==
    /\ pc = "render"
    /\ clock_ok
    /\ frame_index >= 2
    /\ screen # None
    /\ screen.idx < frame_index - 1
    /\ current_time = start_time + frame_index * TicksPerFrame + TicksPerFrame

\* C19: the frame rendered at index m * j is source frame j + 1; source frame
\* 0 is never rendered unmodified and is only seen as the first endpoint of
\* the blends at indices 1 .. m - 1.
C19_GenuineIsNextFrame ==
    screen # None
        => /\ screen.idx % interpolation_factor = 0
              => screen.shown = SourceFrame(vid, screen.idx \div interpolation_factor + 1)
           /\ screen.shown # SourceFrame(vid, 0)
           /\ (screen.shown.lo = 0 \/ screen.shown.hi = 0)
              => /\ screen.idx \in 1..(interpolation_factor - 1)
                 /\ screen.shown.lo = 0
                 /\ screen.shown.hi = 1

C19_Witness ==
    /\ screen # None
    /\ interpolation_factor >= 2
    /\ screen.idx = 2 * interpolation_factor
    /\ screen.shown = SourceFrame(vid, 3)

\* C20: interpolate_frames is only called with two decoded frames, and the
\* frame handed to frame_to_ascii is never None.
C20_NoNullFrames ==
    /\ (pc = "body" /\ frame_index % interpolation_factor # 0)
         => (prev_frame # None /\ current_frame # None)
    /\ pc = "render"
         => DisplayFrame(frame_index, interpolation_factor,
                         prev_frame, current_frame, frame) # None
    /\ exc # "cv2.error"

C20_Witness ==
    /\ pc = "pace"
    /\ frame_index % interpolation_factor # 0
    /\ screen.idx = frame_index
    /\ screen.shown = frame
    /\ frame.lo + 1 = frame.hi

====
